---- MODULE Spec2Model ----
(***************************************************************************)
(* Model of scripts/combine-and-bzip-csvs/main.py: the two pipelines       *)
(* combine_and_upload_high_ram and combine_and_upload_streaming_chunked,   *)
(* the thread pool that runs the retrievals, and the orchestrator thread   *)
(* that collects the futures, compresses and uploads.                      *)
(*                                                                         *)
(* A path is a natural number: 0 stands for an object whose name does not  *)
(* end in ".csv", 1..MaxPaths for objects that do; the order of the        *)
(* numbers stands for the lexicographic order of the path strings.         *)
(***************************************************************************)
EXTENDS Integers, Sequences, FiniteSets, TLC

\* ---------------------------------------------------------------- bounds
MaxPaths == 3

\* ------------------------------------------------------ program constants
MAX_WORKERS == 2
MEMORY_LIMIT_GB == 80
SAMPLE_MAX == 10
COMPRESSLEVEL == 9

\* ------------------------------------------------------------ environment
Paths == 0..MaxPaths

\* f.endswith('.csv')
EndsWithCsv(p) == p # 0

\* the bytes stored under a path (f.read()); bodies differ per path and
\* have different lengths
ObjectBody(p) == [k \in 1..((p % 2) + 1) |-> p]

\* sizes (in GB) that fs.size may report for an object
SizeChoicesGB == {40, 120}

Variants == {"high_ram", "streaming"}

VARIABLES
    variant,         \* which of the two functions __main__ calls
    bucket,          \* the objects under SOURCE_BUCKET/GCS_PREFIX
    withheld,        \* indices whose completion is never delivered (fault injection)
    pc,              \* position of the orchestrator thread
    csv_files,       \* the list csv_files
    fut,             \* state of the future of each index
    yielded,         \* futures as_completed has handed to the loop body
    file_data_dict,  \* high_ram: index -> bytes
    all_data,        \* streaming: list of bytes, in append order
    cursor,          \* loop variable of the compression loop
    bz2_open,        \* the BZ2File context is open
    bz2_input,       \* all bytes written to bz2_writer so far
    missing,         \* indices for which the "Missing data" warning was printed
    dest,            \* the sequence of objects written to DEST_BUCKET/DEST_FILENAME
    file_counter,    \* the global progress counter
    prompted,        \* input("Continue anyway?") was called
    error,           \* the exception that left the function, or "none"
    size_failed,     \* retrievals whose fs.size call raised
    estimate,        \* how the size estimate ended
    response,        \* what input() returned, as typed
    lock,            \* the holder of file_counter_lock
    local_counter,   \* the value of file_counter a worker has loaded
    reported         \* the counter values printed in the progress lines

vars == <<variant, bucket, withheld, pc, csv_files, fut, yielded, file_data_dict,
          all_data, cursor, bz2_open, bz2_input, missing, dest, file_counter,
          prompted, error, size_failed, estimate, response, lock, local_counter,
          reported>>

\* the variables of the confirmation gate
gateVars == <<estimate, response>>

\* the variables of the progress counter
counterVars == <<lock, local_counter, reported>>

\* ---------------------------------------------------------------- helpers
N == Len(csv_files)
Indices == 0..(N - 1)

\* all orders in which fs.find may return the objects of a set
Orders(S) == {s \in [1..Cardinality(S) -> S] :
                 \A i, j \in 1..Cardinality(S) : i # j => s[i] # s[j]}

\* [f for f in csv_files if f.endswith('.csv')]
FilterCsv(s) == SelectSeq(s, EndsWithCsv)

RECURSIVE Insert(_, _)
Insert(x, s) ==
    IF s = <<>> THEN <<x>>
    ELSE IF x <= Head(s) THEN <<x>> \o s
    ELSE <<Head(s)>> \o Insert(x, Tail(s))

RECURSIVE SortedList(_)
SortedList(s) == IF s = <<>> THEN <<>> ELSE Insert(Head(s), SortedList(Tail(s)))

\* csv_files.sort()
NoSort(s) == s
SortPaths(s) == SortedList(s)

\* what download_entire_file(fs, csv_files[i], i, n) returns
DownloadResult(i) == <<i, ObjectBody(csv_files[i + 1])>>

\* what process_file_fast(csv_files[i]) returns
ProcessResult(i) == ObjectBody(csv_files[i + 1])

\* the object blob.upload_from_file writes: the bz2 stream of the bytes fed
\* to the compressor
Bz2Stream(bytes) == [format |-> "bz2", level |-> COMPRESSLEVEL, data |-> bytes]

Queued == {i \in DOMAIN fut : fut[i] = "queued"}
\* started and not yet returned: reading, waiting for the lock, or in it
Running == {i \in DOMAIN fut : fut[i] \in {"running", "fetched", "counting"}}
Finished == {i \in DOMAIN fut : fut[i] \in {"ok", "err"}}

\* nobody holds file_counter_lock
NoHolder == 0 - 1

\* ------------------------------------------------------------------- Init
InitCommon ==
    /\ variant \in Variants
    /\ bucket \in SUBSET Paths
    /\ pc = "list"
    /\ csv_files = <<>>
    /\ fut = <<>>
    /\ yielded = {}
    /\ file_data_dict = <<>>
    /\ all_data = <<>>
    /\ cursor = 0
    /\ bz2_open = FALSE
    /\ bz2_input = <<>>
    /\ missing = {}
    /\ dest = <<>>
    /\ file_counter = 0
    /\ prompted = FALSE
    /\ error = "none"
    /\ size_failed = {}
    /\ estimate = "none"
    /\ response = <<>>
    /\ lock = NoHolder
    /\ local_counter = <<>>
    /\ reported = <<>>

Init == InitCommon /\ withheld = {}

\* the injected fault: the deliveries of some indices are dropped
InitWithheld == InitCommon /\ withheld \in SUBSET (0..(MaxPaths - 1))

\* ----------------------------------------------------------- orchestrator
\* HR_List without the "if not csv_files: return" test
HR_ListNoEmptyTest ==
    /\ variant = "high_ram"
    /\ pc = "list"
    /\ \E l \in Orders(bucket) : csv_files' = SortPaths(FilterCsv(l))
    /\ pc' = "estimate"
    /\ UNCHANGED <<variant, bucket, withheld, fut, yielded, file_data_dict, all_data,
                   cursor, bz2_open, bz2_input, missing, dest, file_counter,
                   prompted, error>>
    /\ UNCHANGED <<size_failed, gateVars, counterVars>>

\* high_ram: list, filter, sort, return when nothing is left
HR_List ==
    /\ variant = "high_ram"
    /\ pc = "list"
    /\ \E l \in Orders(bucket) :
          /\ csv_files' = SortPaths(FilterCsv(l))
          /\ pc' = IF csv_files' = <<>> THEN "returned" ELSE "estimate"
    /\ UNCHANGED <<variant, bucket, withheld, fut, yielded, file_data_dict, all_data,
                   cursor, bz2_open, bz2_input, missing, dest, file_counter,
                   prompted, error>>
    /\ UNCHANGED <<size_failed, gateVars, counterVars>>

\* streaming: list, filter, sort; no test for an empty list
ST_List ==
    /\ variant = "streaming"
    /\ pc = "list"
    /\ \E l \in Orders(bucket) : csv_files' = SortPaths(FilterCsv(l))
    /\ pc' = "submit"
    /\ UNCHANGED <<variant, bucket, withheld, fut, yielded, file_data_dict, all_data,
                   cursor, bz2_open, bz2_input, missing, dest, file_counter,
                   prompted, error>>
    /\ UNCHANGED <<size_failed, gateVars, counterVars>>

SizeLookupError == 0 - 1

RECURSIVE SumSizes(_, _)
SumSizes(sz, k) == IF k = 0 THEN 0 ELSE sz[k] + SumSizes(sz, k - 1)

Min(a, b) == IF a <= b THEN a ELSE b

\* estimated_total_gb > MEMORY_LIMIT_GB, with avg_size = sample_size / k
ExceedsBudget(sample_size, k, n) == sample_size * n > MEMORY_LIMIT_GB * k

\* what the user may type at the prompt, character by character
RawResponses ==
    {<<>>, <<"y">>, <<"Y">>, <<"n">>, <<" ", "y">>, <<"Y", " ">>, <<" ">>,
     <<"y", "y">>}

\* input() raising instead of returning (end of file on stdin)
InputRaises == <<"EOFError">>

\* str.strip(): leading and trailing blanks are removed
RECURSIVE LStrip(_)
LStrip(s) == IF s # <<>> /\ Head(s) = " " THEN LStrip(Tail(s)) ELSE s

RECURSIVE RStrip(_)
RStrip(s) ==
    IF s # <<>> /\ s[Len(s)] = " " THEN RStrip(SubSeq(s, 1, Len(s) - 1)) ELSE s

Strip(s) == RStrip(LStrip(s))

\* str.lower()
Lower(s) == [k \in 1..Len(s) |->
                IF s[k] = "Y" THEN "y" ELSE IF s[k] = "N" THEN "n" ELSE s[k]]

\* a normalisation that forgets lower()
StripOnly(raw) == Strip(raw)

\* input(...).strip().lower()
Normalise(raw) == Lower(Strip(raw))

\* the test "response != 'y'" fails: the run goes on
Confirms(raw) == Normalise(raw) = <<"y">>

\* HR_EstimateSize with an except clause that gives up the run
HR_EstimateSizeHard ==
    /\ pc = "estimate"
    /\ LET k == Min(SAMPLE_MAX, N) IN
       \E sz \in [1..k -> SizeChoicesGB \cup {SizeLookupError}] :
          IF \E j \in 1..k : sz[j] = SizeLookupError
          THEN /\ estimate' = "error"
               /\ pc' = "returned"
               /\ UNCHANGED <<prompted, response>>
          ELSE IF ~ExceedsBudget(SumSizes(sz, k), k, N)
          THEN /\ estimate' = "within"
               /\ pc' = "submit"
               /\ UNCHANGED <<prompted, response>>
          ELSE /\ estimate' = "exceeds"
               /\ prompted' = TRUE
               /\ \E raw \in RawResponses \cup {InputRaises} :
                     /\ response' = raw
                     /\ pc' = IF raw = InputRaises \/ Confirms(raw)
                              THEN "submit" ELSE "returned"
    /\ UNCHANGED <<variant, bucket, withheld, csv_files, fut, yielded, file_data_dict,
                   all_data, cursor, bz2_open, bz2_input, missing, dest,
                   file_counter, error>>
    /\ UNCHANGED <<size_failed, counterVars>>

\* high_ram: the size estimate and the confirmation gate
HR_EstimateSize ==
    /\ pc = "estimate"
    /\ LET k == Min(SAMPLE_MAX, N) IN
       \E sz \in [1..k -> SizeChoicesGB \cup {SizeLookupError}] :
          IF \E j \in 1..k : sz[j] = SizeLookupError
          THEN /\ estimate' = "error"
               /\ pc' = "submit"
               /\ UNCHANGED <<prompted, response>>
          ELSE IF ~ExceedsBudget(SumSizes(sz, k), k, N)
          THEN /\ estimate' = "within"
               /\ pc' = "submit"
               /\ UNCHANGED <<prompted, response>>
          ELSE /\ estimate' = "exceeds"
               /\ prompted' = TRUE
               /\ \E raw \in RawResponses \cup {InputRaises} :
                     /\ response' = raw
                     /\ pc' = IF raw = InputRaises \/ Confirms(raw)
                              THEN "submit" ELSE "returned"
    /\ UNCHANGED <<variant, bucket, withheld, csv_files, fut, yielded, file_data_dict,
                   all_data, cursor, bz2_open, bz2_input, missing, dest,
                   file_counter, error>>
    /\ UNCHANGED <<size_failed, counterVars>>

\* file_counter = 0, the pool is created and every job is submitted
Submit ==
    /\ pc = "submit"
    /\ fut' = [i \in Indices |-> "queued"]
    /\ local_counter' = [i \in Indices |-> 0]
    /\ file_counter' = 0
    /\ pc' = "collect"
    /\ UNCHANGED <<variant, bucket, withheld, csv_files, yielded, file_data_dict,
                   all_data, cursor, bz2_open, bz2_input, missing, dest,
                   prompted, error>>
    /\ UNCHANGED <<size_failed, gateVars, lock, reported>>

\* ------------------------------------------------------------ worker pool
\* a pool thread is idle
NoWorkerLimit == TRUE
WorkerAvailable == Cardinality(Running) < MAX_WORKERS

\* the work queue is FIFO: the next job is the one submitted first
NextQueued == CHOOSE i \in Queued : \A j \in Queued : i <= j

\* an idle pool thread takes the next job from the work queue; the pool keeps
\* doing so while the orchestrator waits in the executor's __exit__
StartRetrieval ==
    /\ pc \in {"collect", "shutdown"}
    /\ Queued # {}
    /\ WorkerAvailable
    /\ fut' = [fut EXCEPT ![NextQueued] = "running"]
    /\ UNCHANGED <<variant, bucket, withheld, pc, csv_files, yielded, file_data_dict,
                   all_data, cursor, bz2_open, bz2_input, missing, dest,
                   file_counter, prompted, error>>
    /\ UNCHANGED <<size_failed, gateVars, counterVars>>

\* DownloadEntireFile storing the body into file_data_dict from the worker
DownloadEntireFileIntoDict(i) ==
    /\ variant = "high_ram"
    /\ fut[i] = "running"
    /\ \E outcome \in {"size_error", "read_error", "fetched"} :
          /\ fut' = [fut EXCEPT ![i] = IF outcome = "fetched" THEN "fetched" ELSE "err"]
          /\ size_failed' = IF outcome = "size_error"
                            THEN size_failed \cup {i} ELSE size_failed
          /\ file_data_dict' = IF outcome = "fetched"
                               THEN (i :> ObjectBody(csv_files[i + 1])) @@ file_data_dict
                               ELSE file_data_dict
    /\ UNCHANGED <<variant, bucket, withheld, pc, csv_files, yielded,
                   all_data, cursor, bz2_open, bz2_input, missing, dest,
                   file_counter, prompted, error>>
    /\ UNCHANGED <<gateVars, counterVars>>

\* high_ram: download_entire_file up to the lock: fs.size raises, or the read
\* raises, or the body is in memory; an exception is printed and re-raised
DownloadEntireFile(i) ==
    /\ variant = "high_ram"
    /\ fut[i] = "running"
    /\ \E outcome \in {"size_error", "read_error", "fetched"} :
          /\ fut' = [fut EXCEPT ![i] = IF outcome = "fetched" THEN "fetched" ELSE "err"]
          /\ size_failed' = IF outcome = "size_error"
                            THEN size_failed \cup {i} ELSE size_failed
    /\ UNCHANGED <<variant, bucket, withheld, pc, csv_files, yielded, file_data_dict,
                   all_data, cursor, bz2_open, bz2_input, missing, dest,
                   file_counter, prompted, error>>
    /\ UNCHANGED <<gateVars, counterVars>>

\* streaming: process_file_fast up to the lock: the read raises or the body
\* is in memory
ProcessFileFast(i) ==
    /\ variant = "streaming"
    /\ fut[i] = "running"
    /\ \E outcome \in {"read_error", "fetched"} :
          fut' = [fut EXCEPT ![i] = IF outcome = "fetched" THEN "fetched" ELSE "err"]
    /\ UNCHANGED <<variant, bucket, withheld, pc, csv_files, yielded, file_data_dict,
                   all_data, cursor, bz2_open, bz2_input, missing, dest,
                   file_counter, prompted, error>>
    /\ UNCHANGED <<size_failed, gateVars, counterVars>>

\* a lock that never blocks
Unlocked == TRUE

\* file_counter_lock can be acquired
LockFree == lock = NoHolder

\* "with file_counter_lock:" is entered and file_counter is loaded for "+= 1"
LockAndLoad(i) ==
    /\ fut[i] = "fetched"
    /\ LockFree
    /\ lock' = i
    /\ local_counter' = [local_counter EXCEPT ![i] = file_counter]
    /\ fut' = [fut EXCEPT ![i] = "counting"]
    /\ UNCHANGED <<variant, bucket, withheld, pc, csv_files, yielded, file_data_dict,
                   all_data, cursor, bz2_open, bz2_input, missing, dest,
                   file_counter, prompted, error>>
    /\ UNCHANGED <<size_failed, gateVars, reported>>

\* StoreAndReturn without the release of the lock
StoreAndReturnKeepsLock(i) ==
    /\ fut[i] = "counting"
    /\ file_counter' = local_counter[i] + 1
    /\ reported' = Append(reported, file_counter')
    /\ local_counter' = [local_counter EXCEPT ![i] = 0]
    /\ fut' = [fut EXCEPT ![i] = "ok"]
    /\ UNCHANGED <<variant, bucket, withheld, pc, csv_files, yielded, file_data_dict,
                   all_data, cursor, bz2_open, bz2_input, missing, dest,
                   prompted, error>>
    /\ UNCHANGED <<size_failed, gateVars, lock>>

\* the sum is stored, the progress line is printed, the lock is released and
\* the function returns
StoreAndReturn(i) ==
    /\ fut[i] = "counting"
    /\ file_counter' = local_counter[i] + 1
    /\ reported' = Append(reported, file_counter')
    /\ local_counter' = [local_counter EXCEPT ![i] = 0]
    /\ lock' = NoHolder
    /\ fut' = [fut EXCEPT ![i] = "ok"]
    /\ UNCHANGED <<variant, bucket, withheld, pc, csv_files, yielded, file_data_dict,
                   all_data, cursor, bz2_open, bz2_input, missing, dest,
                   prompted, error>>
    /\ UNCHANGED <<size_failed, gateVars>>

\* ------------------------------------------------- orchestrator, continued
\* futures as_completed can hand out now
Deliverable == (Finished \ yielded) \ withheld

\* an insertion that ignores the index
DictSetSameKey(d, k, v) == (0 :> v) @@ d

\* file_data_dict[file_index] = file_data
DictSet(d, k, v) == (k :> v) @@ d

\* del file_data_dict[i]
DictDel(d, k) == [j \in (DOMAIN d) \ {k} |-> d[j]]

\* HR_Collect with an except clause that prints and does not re-raise
HR_CollectSwallow ==
    /\ variant = "high_ram"
    /\ pc = "collect"
    /\ \E i \in Deliverable :
          /\ yielded' = yielded \cup {i}
          /\ IF fut[i] = "ok"
             THEN file_data_dict' =
                       DictSet(file_data_dict, DownloadResult(i)[1], DownloadResult(i)[2])
             ELSE UNCHANGED file_data_dict
    /\ UNCHANGED <<variant, bucket, withheld, pc, csv_files, fut, all_data, cursor,
                   bz2_open, bz2_input, missing, dest, file_counter, prompted, error>>
    /\ UNCHANGED <<size_failed, gateVars, counterVars>>

\* high_ram: one pass of the as_completed loop; future.result() returns the
\* pair or re-raises the retrieval's exception, which leaves the loop
HR_Collect ==
    /\ variant = "high_ram"
    /\ pc = "collect"
    /\ \E i \in Deliverable :
          /\ yielded' = yielded \cup {i}
          /\ IF fut[i] = "ok"
             THEN /\ file_data_dict' =
                       DictSet(file_data_dict, DownloadResult(i)[1], DownloadResult(i)[2])
                  /\ UNCHANGED <<pc, error>>
             ELSE /\ pc' = "shutdown"
                  /\ error' = "FetchError"
                  /\ UNCHANGED file_data_dict
    /\ UNCHANGED <<variant, bucket, withheld, csv_files, fut, all_data, cursor,
                   bz2_open, bz2_input, missing, dest, file_counter, prompted>>
    /\ UNCHANGED <<size_failed, gateVars, counterVars>>

\* streaming: all_data.append(future.result())
ST_Collect ==
    /\ variant = "streaming"
    /\ pc = "collect"
    /\ \E i \in Deliverable :
          /\ yielded' = yielded \cup {i}
          /\ IF fut[i] = "ok"
             THEN /\ all_data' = Append(all_data, ProcessResult(i))
                  /\ UNCHANGED <<pc, error>>
             ELSE /\ pc' = "shutdown"
                  /\ error' = "FetchError"
                  /\ UNCHANGED all_data
    /\ UNCHANGED <<variant, bucket, withheld, csv_files, fut, file_data_dict, cursor,
                   bz2_open, bz2_input, missing, dest, file_counter, prompted>>
    /\ UNCHANGED <<size_failed, gateVars, counterVars>>

\* the executor's __exit__ is shutdown(wait=True): it returns when the pool
\* threads have run every queued job
PoolIdle == Queued = {} /\ Running = {}

\* ExitPool leaving the loop after the first delivery
ExitPoolEarly ==
    /\ pc = "collect"
    /\ yielded # {}
    /\ pc' = "compress"
    /\ bz2_open' = TRUE
    /\ cursor' = 0
    /\ UNCHANGED <<variant, bucket, withheld, csv_files, fut, yielded, file_data_dict,
                   all_data, bz2_input, missing, dest, file_counter, prompted, error>>
    /\ UNCHANGED <<size_failed, gateVars, counterVars>>

\* the as_completed loop ended normally; the with block is left and the
\* BZ2File is opened
ExitPool ==
    /\ pc = "collect"
    /\ yielded = Indices \ withheld
    /\ PoolIdle
    /\ pc' = "compress"
    /\ bz2_open' = TRUE
    /\ cursor' = 0
    /\ UNCHANGED <<variant, bucket, withheld, csv_files, fut, yielded, file_data_dict,
                   all_data, bz2_input, missing, dest, file_counter, prompted, error>>
    /\ UNCHANGED <<size_failed, gateVars, counterVars>>

\* the exception leaves the with block once the pool has shut down, and then
\* the function
ExitPoolRaise ==
    /\ pc = "shutdown"
    /\ PoolIdle
    /\ pc' = "failed"
    /\ UNCHANGED <<variant, bucket, withheld, csv_files, fut, yielded, file_data_dict,
                   all_data, cursor, bz2_open, bz2_input, missing, dest,
                   file_counter, prompted, error>>
    /\ UNCHANGED <<size_failed, gateVars, counterVars>>

\* HR_CompressStep walking the indices from the last to the first
HR_CompressStepDescending ==
    /\ variant = "high_ram"
    /\ pc = "compress"
    /\ cursor < N
    /\ LET idx == N - 1 - cursor IN
       IF idx \in DOMAIN file_data_dict
       THEN /\ bz2_input' = bz2_input \o file_data_dict[idx]
            /\ file_data_dict' = DictDel(file_data_dict, idx)
            /\ UNCHANGED missing
       ELSE /\ missing' = missing \cup {idx}
            /\ UNCHANGED <<bz2_input, file_data_dict>>
    /\ cursor' = cursor + 1
    /\ UNCHANGED <<variant, bucket, withheld, pc, csv_files, fut, yielded, all_data,
                   bz2_open, dest, file_counter, prompted, error>>
    /\ UNCHANGED <<size_failed, gateVars, counterVars>>

\* high_ram: one pass of "for i in range(len(csv_files))"
HR_CompressStep ==
    /\ variant = "high_ram"
    /\ pc = "compress"
    /\ cursor < N
    /\ IF cursor \in DOMAIN file_data_dict
       THEN /\ bz2_input' = bz2_input \o file_data_dict[cursor]
            /\ file_data_dict' = DictDel(file_data_dict, cursor)
            /\ UNCHANGED missing
       ELSE /\ missing' = missing \cup {cursor}
            /\ UNCHANGED <<bz2_input, file_data_dict>>
    /\ cursor' = cursor + 1
    /\ UNCHANGED <<variant, bucket, withheld, pc, csv_files, fut, yielded, all_data,
                   bz2_open, dest, file_counter, prompted, error>>
    /\ UNCHANGED <<size_failed, gateVars, counterVars>>

\* streaming: one pass of "for file_data in all_data"
ST_CompressStep ==
    /\ variant = "streaming"
    /\ pc = "compress"
    /\ cursor < Len(all_data)
    /\ bz2_input' = bz2_input \o all_data[cursor + 1]
    /\ cursor' = cursor + 1
    /\ UNCHANGED <<variant, bucket, withheld, pc, csv_files, fut, yielded,
                   file_data_dict, all_data, bz2_open, missing, dest, file_counter,
                   prompted, error>>
    /\ UNCHANGED <<size_failed, gateVars, counterVars>>

\* the compression loop is over
LoopDone == IF variant = "high_ram" THEN cursor = N ELSE cursor = Len(all_data)

\* CloseBz2 going on to the upload inside the with block
CloseBz2LeftOpen ==
    /\ pc = "compress"
    /\ LoopDone
    /\ pc' = "upload"
    /\ UNCHANGED <<variant, bucket, withheld, csv_files, fut, yielded, file_data_dict,
                   all_data, cursor, bz2_open, bz2_input, missing, dest, file_counter,
                   prompted, error>>
    /\ UNCHANGED <<size_failed, gateVars, counterVars>>

\* the BZ2File context is left
CloseBz2 ==
    /\ pc = "compress"
    /\ LoopDone
    /\ bz2_open' = FALSE
    /\ pc' = "upload"
    /\ UNCHANGED <<variant, bucket, withheld, csv_files, fut, yielded, file_data_dict,
                   all_data, cursor, bz2_input, missing, dest, file_counter,
                   prompted, error>>
    /\ UNCHANGED <<size_failed, gateVars, counterVars>>

\* blob.upload_from_file writes the destination object or raises
Upload ==
    /\ pc = "upload"
    /\ \E ok \in BOOLEAN :
          IF ok
          THEN /\ dest' = Append(dest, Bz2Stream(bz2_input))
               /\ pc' = "done"
               /\ UNCHANGED error
          ELSE /\ pc' = "failed"
               /\ error' = "UploadError"
               /\ UNCHANGED dest
    /\ UNCHANGED <<variant, bucket, withheld, csv_files, fut, yielded, file_data_dict,
                   all_data, cursor, bz2_open, bz2_input, missing, file_counter,
                   prompted>>
    /\ UNCHANGED <<size_failed, gateVars, counterVars>>

\* ------------------------------------------------------------------- Next
Next ==
    \/ HR_List
    \/ ST_List
    \/ HR_EstimateSize
    \/ Submit
    \/ StartRetrieval
    \/ \E i \in DOMAIN fut : DownloadEntireFile(i)
    \/ \E i \in DOMAIN fut : ProcessFileFast(i)
    \/ \E i \in DOMAIN fut : LockAndLoad(i)
    \/ \E i \in DOMAIN fut : StoreAndReturn(i)
    \/ HR_Collect
    \/ ST_Collect
    \/ ExitPool
    \/ ExitPoolRaise
    \/ HR_CompressStep
    \/ ST_CompressStep
    \/ CloseBz2
    \/ Upload

Spec == Init /\ [][Next]_vars

\* the steps of the pool threads
Workers ==
    \/ StartRetrieval
    \/ \E i \in DOMAIN fut : DownloadEntireFile(i)
    \/ \E i \in DOMAIN fut : ProcessFileFast(i)
    \/ \E i \in DOMAIN fut : LockAndLoad(i)
    \/ \E i \in DOMAIN fut : StoreAndReturn(i)

\* the steps of the main thread
Orchestrator ==
    \/ HR_List
    \/ ST_List
    \/ HR_EstimateSize
    \/ Submit
    \/ HR_Collect
    \/ ST_Collect
    \/ ExitPool
    \/ ExitPoolRaise
    \/ HR_CompressStep
    \/ ST_CompressStep
    \/ CloseBz2
    \/ Upload

\* both threads of control are scheduled, and every call to the storage
\* service and to input() returns or raises
FairSpec == Init /\ [][Next]_vars /\ WF_vars(Orchestrator) /\ WF_vars(Workers)

\* the function has returned or raised
Terminated == pc \in {"done", "failed", "returned"}

\* the payloads reachable through the dict "futures": it holds every Future
\* until the function is left, and a finished Future holds its result
HeldByFuture == IF Terminated THEN {} ELSE {i \in DOMAIN fut : fut[i] = "ok"}

\* high_ram: the payloads that are still referenced
LivePayloads == (DOMAIN file_data_dict) \cup HeldByFuture

\* the same program with the deliveries of the withheld indices dropped
SpecWithheld == InitWithheld /\ [][Next]_vars

TypeOK ==
    /\ variant \in Variants
    /\ bucket \subseteq Paths
    /\ pc \in {"list", "estimate", "submit", "collect", "shutdown", "compress",
               "upload", "done", "failed", "returned"}
    /\ DOMAIN fut \subseteq 0..(MaxPaths - 1)
    /\ yielded \subseteq DOMAIN fut
    /\ cursor \in 0..MaxPaths
    /\ bz2_open \in BOOLEAN
    /\ Len(dest) <= 1
    /\ file_counter \in 0..MaxPaths
    /\ error \in {"none", "FetchError", "UploadError"}
    /\ size_failed \subseteq DOMAIN fut
    /\ estimate \in {"none", "error", "within", "exceeds"}
    /\ response \in RawResponses \cup {InputRaises}
    /\ lock \in {NoHolder} \cup DOMAIN fut
    /\ Len(reported) <= MaxPaths

\* ----------------------------------------------------------------- claims
\* the input objects whose path ends in .csv
CsvObjects == {p \in bucket : EndsWithCsv(p)}

LeastPath(S) == CHOOSE x \in S : \A y \in S : x <= y

\* the bodies of a set of objects, concatenated in path order, no separators
RECURSIVE ConcatInPathOrder(_)
ConcatInPathOrder(S) ==
    IF S = {} THEN <<>>
    ELSE ObjectBody(LeastPath(S)) \o ConcatInPathOrder(S \ {LeastPath(S)})

\* the bytes combine_and_upload_high_ram feeds the compressor for the first k
\* entries of csv_files
RECURSIVE HighRamBytes(_)
HighRamBytes(k) ==
    IF k = 0 THEN <<>> ELSE HighRamBytes(k - 1) \o DownloadResult(k - 1)[2]

Unfinished == Queued \cup Running

\* C1: a successful run of combine_and_upload_high_ram has written to the
\* compressor exactly the bodies of the .csv objects concatenated in sorted
\* path order, whatever the listing order and the completion order were, and
\* the destination object is the bz2 stream of exactly these bytes.
C1_SortedConcatenation ==
    (variant = "high_ram" /\ pc \in {"upload", "done"}) =>
        /\ bz2_input = ConcatInPathOrder(CsvObjects)
        /\ pc = "done" => dest = <<Bz2Stream(ConcatInPathOrder(CsvObjects))>>

C1_Witness ==
    /\ variant = "high_ram"
    /\ pc = "done"
    /\ Cardinality(CsvObjects) >= 3
    /\ bz2_input = ConcatInPathOrder(CsvObjects)

\* C2: combine_and_upload_streaming_chunked feeds the compressor the same
\* byte sequence as combine_and_upload_high_ram does for the same csv_files,
\* for every completion order of the retrievals.
C2_VariantsFeedSameBytes ==
    (variant = "streaming" /\ pc \in {"upload", "done"}) =>
        bz2_input = HighRamBytes(N)

\* C3: once a retrieval has raised, the run never reaches compression or
\* upload, no destination object is written, and the run can only end in the
\* failed state with the fetch error.
C3_FailedRetrievalNoUpload ==
    (\E i \in DOMAIN fut : fut[i] = "err") =>
        /\ pc \in {"collect", "shutdown", "failed"}
        /\ dest = <<>>
        /\ pc = "failed" => error = "FetchError"

C3_Witness ==
    /\ pc = "failed"
    /\ error = "FetchError"
    /\ \E i \in DOMAIN fut : fut[i] = "err"
    /\ \E i \in DOMAIN fut : fut[i] = "ok"
    /\ dest = <<>>

\* C4: when the compression loop finds an index absent from file_data_dict,
\* the run does not complete and writes no destination object.
C4_MissingIndexIsFatal ==
    (variant = "high_ram" /\ missing # {}) => (pc # "done" /\ dest = <<>>)

\* C5: at most MAX_WORKERS retrievals have started and not yet finished.
C5_WorkerLimit == Cardinality(Running) <= MAX_WORKERS

C5_Witness ==
    /\ Cardinality(Running) = MAX_WORKERS
    /\ Queued # {}
    /\ N > MAX_WORKERS

\* C6: once the orchestrator has observed a failed retrieval, no queued
\* retrieval is started any more.
C6_NoStartAfterFailure ==
    [][(variant = "high_ram" /\ pc = "shutdown") => Running' \subseteq Running]_vars

\* C7: combine_and_upload_high_ram with no .csv object in the listing returns
\* at once: no retrieval is submitted, the compressor is never opened or
\* written, nothing is uploaded, nobody is prompted and no error is raised.
C7_EmptyListingNoOp ==
    (variant = "high_ram" /\ CsvObjects = {} /\ pc # "list") =>
        /\ pc = "returned"
        /\ fut = <<>>
        /\ ~bz2_open
        /\ bz2_input = <<>>
        /\ dest = <<>>
        /\ ~prompted
        /\ error = "none"

C7_Witness ==
    /\ variant = "high_ram"
    /\ CsvObjects = {}
    /\ bucket # {}
    /\ pc = "returned"

\* C8: combine_and_upload_streaming_chunked with no .csv object in the
\* listing writes no destination object.
C8_StreamingEmptyNoWrite ==
    (variant = "streaming" /\ CsvObjects = {}) => dest = <<>>

C11_SizeLookupAdvisory ==
    variant = "high_ram" =>
        /\ \A i \in size_failed : fut[i] # "err"
        /\ (pc = "failed" /\ error = "FetchError") =>
              \E i \in DOMAIN fut : fut[i] = "err" /\ i \notin size_failed

\* the entries a step removes from file_data_dict
Removed == (DOMAIN file_data_dict) \ (DOMAIN file_data_dict')

\* C12: every step that removes an entry from file_data_dict removes exactly
\* one, the one with the least index present, and appends its bytes to the
\* compressor input: entries leave in increasing index order.
C12_RemovedInIndexOrder ==
    [][(variant = "high_ram" /\ Removed # {}) =>
          \E j \in Removed :
             /\ Removed = {j}
             /\ \A i \in DOMAIN file_data_dict : j <= i
             /\ bz2_input' = bz2_input \o file_data_dict[j]]_vars

C12_Witness ==
    /\ variant = "high_ram"
    /\ pc = "compress"
    /\ cursor = 2
    /\ DOMAIN file_data_dict = {2}
    /\ bz2_input # <<>>

\* C13: when a size lookup raised during the estimate, nobody is prompted,
\* the run is not given up at the gate, and it goes on to the fetch phase.
C13_EstimatorFailsSoft ==
    estimate = "error" =>
        /\ ~prompted
        /\ response = <<>>
        /\ pc \notin {"list", "estimate", "returned"}
        /\ pc = "submit" \/ DOMAIN fut = Indices

C13_Witness ==
    /\ estimate = "error"
    /\ pc = "collect"
    /\ Running # {}
    /\ ~prompted

\* C14: file_data_dict and the compression cursor are changed only by steps
\* of the orchestrator in its collect loop or its compression loop; no step
\* of a pool thread (a step that changes a future or the lock) changes them.
C14_SingleWriter ==
    [][(file_data_dict' # file_data_dict \/ cursor' # cursor) =>
          (fut' = fut /\ lock' = lock /\ pc \in {"collect", "compress"})]_vars

C14_Witness ==
    /\ variant = "high_ram"
    /\ pc = "collect"
    /\ DOMAIN file_data_dict # {}
    /\ \E i \in DOMAIN fut :
          fut[i] = "ok" /\ i \notin yielded /\ i \notin DOMAIN file_data_dict

\* C15: in combine_and_upload_high_ram a payload is no longer referenced once
\* the compression loop has passed its index, and no payload is referenced
\* when the compressor has been closed.
C15_ReleasedAfterWrite ==
    variant = "high_ram" =>
        /\ pc = "compress" => \A i \in LivePayloads : i >= cursor
        /\ pc = "upload" => LivePayloads = {}

\* C16: under fair scheduling of the orchestrator and the pool, every run
\* ends: the function returns or raises.
C16_Terminates == <>Terminated

C16_Witness ==
    /\ pc = "failed"
    /\ error = "FetchError"
    /\ N > MAX_WORKERS
    /\ Unfinished = {}

\* C17: the destination object is written at most once, and whenever the
\* upload has been reached or the object exists, the compressor is closed,
\* no retrieval is queued or running, and every retrieval has succeeded.
C17_UploadLast ==
    /\ Len(dest) <= 1
    /\ (pc \in {"upload", "done"} \/ dest # <<>>) =>
          /\ ~bz2_open
          /\ Unfinished = {}
          /\ DOMAIN fut = Indices
          /\ \A i \in DOMAIN fut : fut[i] = "ok"

C17_Witness ==
    /\ pc = "done"
    /\ Len(dest) = 1
    /\ N > MAX_WORKERS
    /\ ~bz2_open

\* the retrievals that have returned their payload
Succeeded == {i \in DOMAIN fut : fut[i] = "ok"}

\* C18: no increment of file_counter is lost: the values printed by the
\* workers are 1, 2, ..., k in this order, the counter equals the number of
\* retrievals that have returned, never exceeds N, and is N when all N have
\* succeeded.
C18_CounterExact ==
    /\ \A k \in 1..Len(reported) : reported[k] = k
    /\ file_counter = Len(reported)
    /\ file_counter = Cardinality(Succeeded)
    /\ file_counter <= N
    /\ (DOMAIN fut = Indices /\ Succeeded = Indices) => file_counter = N

C18_Witness ==
    /\ file_counter >= 1
    /\ lock # NoHolder
    /\ \E j \in DOMAIN fut : fut[j] = "fetched"

\* the answers that mean yes: "y" in either case, with or without blanks
\* around it
ConfirmingAnswers == {<<"y">>, <<"Y">>, <<" ", "y">>, <<"Y", " ">>}

\* C19 (as claimed): when the projection exceeds the budget and the answer
\* typed is anything other than "y", the run ends with no retrieval started
\* and nothing written; within budget nobody is prompted and the run goes on.
C19_AnswerOtherThanYStops ==
    /\ (estimate = "exceeds" /\ response # InputRaises /\ response # <<"y">>) =>
          (pc = "returned" /\ fut = <<>> /\ dest = <<>>)
    /\ estimate = "within" =>
          (~prompted /\ pc \notin {"list", "estimate", "returned"})

\* C19 (amended): the answer is compared after strip() and lower(): an
\* answer that is not "y" in either case, blanks aside, ends the run with no
\* retrieval started and nothing written; one that is lets the run go on;
\* within budget nobody is prompted and the run goes on.
C19_NormalisedAnswerGate ==
    /\ (estimate = "exceeds" /\ response \in RawResponses \ ConfirmingAnswers) =>
          (prompted /\ pc = "returned" /\ fut = <<>> /\ dest = <<>>)
    /\ (estimate = "exceeds" /\ response \in ConfirmingAnswers) =>
          (prompted /\ pc \notin {"list", "estimate", "returned"})
    /\ estimate = "within" =>
          (~prompted /\ response = <<>> /\ pc \notin {"list", "estimate", "returned"})

C19_Witness ==
    /\ estimate = "exceeds"
    /\ response = <<"n">>
    /\ pc = "returned"
    /\ fut = <<>>

====
